---- MODULE Spec2Model ----
(***************************************************************************)
(* Model of fastapi-backend/main.py: the request handlers of the           *)
(* AuraByShenoi API (root, health_check, subscribe_newsletter,             *)
(* submit_contact, get_paintings) over the three MongoDB collections       *)
(* newsletters, contacts and paintings.                                    *)
(*                                                                         *)
(* A handler is a coroutine: it runs without interruption between two      *)
(* awaits, and every await is one storage call.  One action models one     *)
(* storage call together with the handler code that runs up to the next    *)
(* await (or up to the response).  A storage call either succeeds or       *)
(* raises; a call that raises leaves the collections as they were.         *)
(*                                                                         *)
(* Strings are sequences of one-character strings, so that lower(),        *)
(* strip(), str() and zfill() are computed as Python computes them.        *)
(* Optional values are <<>> (None) or <<v>>.  Timestamps, phone,           *)
(* artworkReference and source are not modelled: no handler branches on    *)
(* them.  The id of a document is the number of the request that inserted  *)
(* it (newsletters, contacts) or its position (paintings).                 *)
(***************************************************************************)
EXTENDS Integers, Sequences, FiniteSets

VARIABLES
    newsletters,   \* db.newsletters: sequence of documents, in insertion order
    contacts,      \* db.contacts: the documents inserted since Init, in order
    contactsBase,  \* number of older db.contacts documents (contents untracked)
    paintings,     \* db.paintings: sequence of documents, in natural order
    kind,          \* kind[r]: the endpoint request r was sent to
    pc,            \* pc[r]: "idle", the storage call r awaits, or "done"
    args,          \* args[r]: the request's validated body / query parameters
    count,         \* count[r]: submit_contact's local variable count
    calls,         \* calls[r]: history of the storage calls r has made
    resp           \* resp[r]: the HTTP response, once pc[r] = "done"

vars == <<newsletters, contacts, contactsBase, paintings,
          kind, pc, args, count, calls, resp>>

----------------------------------------------------------------------------
(* Bounds of the model *)

NReq == 3            \* request slots of the concurrent and sequential runs
NRead == 2           \* request slots of the read-only endpoints
NValid == 2          \* request slots of the validation runs
BigStoreLen == 102   \* size of the largest paintings collection

(* Constants of the program *)

MinNameLen == 2
MaxNameLen == 100
MinMessageLen == 10
MaxMessageLen == 1000
PadWidth == 6
DefaultCap == 100

Req == 1 .. NReq

None == <<>>
Some(v) == <<v>>

----------------------------------------------------------------------------
(* Python string functions *)

Rep(c, n) == [i \in 1 .. n |-> c]

LowerChar(c) ==
    CASE c = "A" -> "a"
      [] c = "B" -> "b"
      [] OTHER -> c

\* Mutant of Lower: the email is used as it was sent.
LowerIdentity(s) == s

\* str.lower()
Lower(s) == [i \in 1 .. Len(s) |-> LowerChar(s[i])]

IsSpace(c) == c = " "

RECURSIVE LStrip(_)
LStrip(s) == IF s # <<>> /\ IsSpace(Head(s)) THEN LStrip(Tail(s)) ELSE s

RECURSIVE RStrip(_)
RStrip(s) ==
    IF s # <<>> /\ IsSpace(s[Len(s)]) THEN RStrip(SubSeq(s, 1, Len(s) - 1)) ELSE s

\* str.strip()
Strip(s) == RStrip(LStrip(s))

Digits == <<"0", "1", "2", "3", "4", "5", "6", "7", "8", "9">>

\* str(n) for an integer n >= 0
RECURSIVE Str(_)
Str(n) ==
    IF n < 10 THEN <<Digits[n + 1]>>
    ELSE Str(n \div 10) \o <<Digits[(n % 10) + 1]>>

\* Mutant of ZFill: pads to one character less than asked.
ZFillShort(s, width) ==
    IF Len(s) >= width - 1 THEN s ELSE Rep("0", width - 1 - Len(s)) \o s

\* str.zfill(width) of a string without sign
ZFill(s, width) == IF Len(s) >= width THEN s ELSE Rep("0", width - Len(s)) \o s

----------------------------------------------------------------------------
(* Storage operations *)

\* Mutant of FindOne: the filter names a field no document has.
FindOneNever(coll, email) == None

\* collection.find_one({"email": email})
FindOne(coll, email) ==
    LET m == SelectSeq(coll, LAMBDA d : d.email = email)
    IN  IF m = <<>> THEN None ELSE Some(Head(m))

\* Mutant of CountDocuments: a count taken once and never refreshed.
CountDocumentsStale == contactsBase

\* db.contacts.count_documents({})
CountDocuments == contactsBase + Len(contacts)

\* Mutant of ContactNumber: the count is not incremented.
ContactNumberNoIncrement(c) == <<"C", "N", "T">> \o ZFill(Str(c), PadWidth)

\* f"CNT{str(count + 1).zfill(6)}"
ContactNumber(c) == <<"C", "N", "T">> \o ZFill(Str(c + 1), PadWidth)

\* Field(min_length, max_length) of ContactSubmission.name and .message
ValidContact(name, message) ==
    /\ Len(name) >= MinNameLen /\ Len(name) <= MaxNameLen
    /\ Len(message) >= MinMessageLen /\ Len(message) <= MaxMessageLen

----------------------------------------------------------------------------
(* Requests *)

NoArgs == [email |-> <<>>, name |-> <<>>, message |-> <<>>,
           featured |-> None, limit |-> None]

NoResp == [status |-> 0]

\* Requests are numbered in their order of arrival.
Arrives(r) == pc[r] = "idle" /\ (IF r = 1 THEN TRUE ELSE pc[r - 1] # "idle")

Call(op, ok, at) == [op |-> op, ok |-> ok, at |-> at]

\* raise HTTPException(status_code = code)
Raise(r, code) ==
    /\ resp' = [resp EXCEPT ![r] = [status |-> code]]
    /\ pc' = [pc EXCEPT ![r] = "done"]

\* return body  (FastAPI answers 200)
Return(r, body) ==
    /\ resp' = [resp EXCEPT ![r] = [status |-> 200, body |-> body]]
    /\ pc' = [pc EXCEPT ![r] = "done"]

----------------------------------------------------------------------------
(* POST /api/newsletter/subscribe *)

\* Request arrival up to the result of find_one.
SubscribeFind(r, email, ok) ==
    /\ Arrives(r)
    /\ kind' = [kind EXCEPT ![r] = "subscribe"]
    /\ args' = [args EXCEPT ![r] = [NoArgs EXCEPT !.email = email]]
    /\ calls' = [calls EXCEPT ![r] = <<Call("find_one", ok, Len(newsletters))>>]
    /\ IF ~ok THEN Raise(r, 500)
       ELSE IF FindOne(newsletters, Lower(email)) # None THEN Raise(r, 409)
       ELSE /\ pc' = [pc EXCEPT ![r] = "insert_one"]
            /\ resp' = resp
    /\ UNCHANGED <<newsletters, contacts, contactsBase, paintings, count>>

\* insert_one up to the response.
SubscribeInsert(r, ok) ==
    /\ pc[r] = "insert_one" /\ kind[r] = "subscribe"
    /\ calls' = [calls EXCEPT ![r] = Append(@, Call("insert_one", ok, Len(newsletters)))]
    /\ IF ok
       THEN /\ newsletters' = Append(newsletters,
                    [id |-> r, email |-> Lower(args[r].email), status |-> "active"])
            /\ Return(r, [success |-> TRUE, email |-> Lower(args[r].email)])
       ELSE /\ newsletters' = newsletters
            /\ Raise(r, 500)
    /\ UNCHANGED <<contacts, contactsBase, paintings, kind, args, count>>

----------------------------------------------------------------------------
(* POST /api/contact *)

\* The body fails ContactSubmission's validation: 422, the handler never runs.
RejectContact(r, name, email, message) ==
    /\ Arrives(r)
    /\ ~ValidContact(name, message)
    /\ kind' = [kind EXCEPT ![r] = "contact"]
    /\ args' = [args EXCEPT ![r] =
                  [NoArgs EXCEPT !.email = email, !.name = name, !.message = message]]
    /\ Raise(r, 422)
    /\ UNCHANGED <<newsletters, contacts, contactsBase, paintings, count, calls>>

\* Request arrival up to the result of count_documents.
SubmitContactCount(r, name, email, message, ok) ==
    /\ Arrives(r)
    /\ ValidContact(name, message)
    /\ kind' = [kind EXCEPT ![r] = "contact"]
    /\ args' = [args EXCEPT ![r] =
                  [NoArgs EXCEPT !.email = email, !.name = name, !.message = message]]
    /\ calls' = [calls EXCEPT ![r] = <<Call("count_documents", ok, Len(contacts))>>]
    /\ IF ok
       THEN /\ count' = [count EXCEPT ![r] = Some(CountDocuments)]
            /\ pc' = [pc EXCEPT ![r] = "insert_one"]
            /\ resp' = resp
       ELSE /\ count' = count
            /\ Raise(r, 500)
    /\ UNCHANGED <<newsletters, contacts, contactsBase, paintings>>

\* Mutant of SubmitContactInsert: the document is stored before the failure is
\* raised.
SubmitContactInsertThenFail(r, ok) ==
    /\ pc[r] = "insert_one" /\ kind[r] = "contact"
    /\ calls' = [calls EXCEPT ![r] = Append(@, Call("insert_one", ok, Len(contacts)))]
    /\ contacts' = Append(contacts,
            [id |-> r,
             contactNumber |-> <<"C", "N", "T">> \o ZFill(Str(count[r][1] + 1), PadWidth),
             name |-> Strip(args[r].name),
             email |-> Lower(args[r].email),
             message |-> Strip(args[r].message),
             status |-> "new"])
    /\ IF ok
       THEN Return(r, [success |-> TRUE,
                       contactNumber |-> contacts'[Len(contacts')].contactNumber])
       ELSE Raise(r, 500)
    /\ UNCHANGED <<newsletters, contactsBase, paintings, kind, args, count>>

\* contact_number, contact_doc, insert_one up to the response.
SubmitContactInsert(r, ok) ==
    /\ pc[r] = "insert_one" /\ kind[r] = "contact"
    /\ calls' = [calls EXCEPT ![r] = Append(@, Call("insert_one", ok, Len(contacts)))]
    /\ LET contact_number == ContactNumber(count[r][1])
           contact_doc == [id |-> r,
                           contactNumber |-> contact_number,
                           name |-> Strip(args[r].name),
                           email |-> Lower(args[r].email),
                           message |-> Strip(args[r].message),
                           status |-> "new"]
       IN  IF ok
           THEN /\ contacts' = Append(contacts, contact_doc)
                /\ Return(r, [success |-> TRUE, contactNumber |-> contact_number])
           ELSE /\ contacts' = contacts
                /\ Raise(r, 500)
    /\ UNCHANGED <<newsletters, contactsBase, paintings, kind, args, count>>

----------------------------------------------------------------------------
(* GET / , GET /health , GET /api/paintings *)

root(r) ==
    /\ Arrives(r)
    /\ kind' = [kind EXCEPT ![r] = "root"]
    /\ Return(r, [message |-> "AuraByShenoi API", status |-> "running"])
    /\ UNCHANGED <<newsletters, contacts, contactsBase, paintings, args, count, calls>>

\* Mutant of health_check: a failed ping is raised as 503.
health_checkRaises(r, ok) ==
    /\ Arrives(r)
    /\ kind' = [kind EXCEPT ![r] = "health"]
    /\ calls' = [calls EXCEPT ![r] = <<Call("ping", ok, 0)>>]
    /\ IF ok
       THEN Return(r, [status |-> "healthy", database |-> "connected"])
       ELSE Raise(r, 503)
    /\ UNCHANGED <<newsletters, contacts, contactsBase, paintings, args, count>>

\* The ping and the try/except around it.
health_check(r, ok) ==
    /\ Arrives(r)
    /\ kind' = [kind EXCEPT ![r] = "health"]
    /\ calls' = [calls EXCEPT ![r] = <<Call("ping", ok, 0)>>]
    /\ IF ok
       THEN Return(r, [status |-> "healthy", database |-> "connected"])
       ELSE Return(r, [status |-> "unhealthy", database |-> "disconnected",
                       error |-> "str(e)"])
    /\ UNCHANGED <<newsletters, contacts, contactsBase, paintings, args, count>>

\* Python truth value of an Optional[int]: None and 0 are false.
Truthy(limit) == limit # None /\ limit[1] # 0

Min(a, b) == IF a <= b THEN a ELSE b

Take(s, n) == SubSeq(s, 1, Min(n, Len(s)))

\* db.paintings.find(query)
Find(coll, featured) ==
    IF featured # None
    THEN SelectSeq(coll, LAMBDA d : d.featured = featured[1])
    ELSE coll

\* cursor.limit(limit) when limit is true, then to_list(length = limit or 100)
ToList(cursor, limit) ==
    LET limited == IF Truthy(limit) THEN Take(cursor, limit[1]) ELSE cursor
        length == IF Truthy(limit) THEN limit[1] ELSE DefaultCap
    IN  Take(limited, length)

\* painting["_id"] = str(painting["_id"])
IdToStr(docs) == [i \in 1 .. Len(docs) |-> [docs[i] EXCEPT !.id = Str(@)]]

get_paintings(r, featured, limit, ok) ==
    /\ Arrives(r)
    /\ kind' = [kind EXCEPT ![r] = "paintings"]
    /\ args' = [args EXCEPT ![r] = [NoArgs EXCEPT !.featured = featured, !.limit = limit]]
    /\ calls' = [calls EXCEPT ![r] = <<Call("to_list", ok, Len(paintings))>>]
    /\ IF ok
       THEN Return(r, [success |-> TRUE,
                       data |-> IdToStr(ToList(Find(paintings, featured), limit))])
       ELSE Raise(r, 500)
    /\ UNCHANGED <<newsletters, contacts, contactsBase, paintings, count>>

----------------------------------------------------------------------------
(* Inputs *)

EmailA == <<"a", "@", "x">>
EmailACaps == <<"A", "@", "x">>
EmailB == <<"b", "@", "x">>

\* Values of an EmailStr field: valid addresses, the domain already in lower case.
Emails == {EmailA, EmailACaps, EmailB}

GoodName == <<"a", "b">>
PaddedName == <<" ", "a", "b", " ">>
GoodMessage == Rep("m", MinMessageLen)

NameInputs ==
    {<<"a">>, <<"a", "b">>, <<" ", " ">>, <<" ", "a">>, <<" ", "a", "b", " ">>,
     Rep("n", MaxNameLen), Rep("n", MaxNameLen + 1),
     <<" ">> \o Rep("n", MaxNameLen)}

MessageInputs ==
    {Rep("m", MinMessageLen - 1), Rep("m", MinMessageLen),
     Rep(" ", MinMessageLen), <<" ">> \o Rep("m", MinMessageLen - 1),
     Rep("m", MaxMessageLen), Rep("m", MaxMessageLen + 1),
     <<" ">> \o Rep("m", MaxMessageLen)}

ContactBases == {0, 10 ^ PadWidth - 2}

FeaturedInputs == {None, Some(TRUE), Some(FALSE)}
LimitInputs == {None, Some(0), Some(1), Some(2), Some(DefaultCap + 50)}

\* A paintings collection of n documents, every third one featured.
Store(n) == [i \in 1 .. n |-> [id |-> i, featured |-> (i % 3 = 1)]]

PaintingStores == {Store(0), Store(4), Store(BigStoreLen)}

----------------------------------------------------------------------------
(* Specifications *)

InitRequests ==
    /\ kind = [r \in Req |-> "none"]
    /\ pc = [r \in Req |-> "idle"]
    /\ args = [r \in Req |-> NoArgs]
    /\ count = [r \in Req |-> None]
    /\ calls = [r \in Req |-> <<>>]
    /\ resp = [r \in Req |-> NoResp]

Init ==
    /\ InitRequests
    /\ newsletters = <<>>
    /\ contacts = <<>>
    /\ contactsBase \in ContactBases
    /\ paintings = Store(0)

\* Any number of requests in flight, any storage call may fail.
Next ==
    \E r \in Req, ok \in BOOLEAN :
        \/ \E email \in Emails : SubscribeFind(r, email, ok)
        \/ SubscribeInsert(r, ok)
        \/ SubmitContactCount(r, GoodName, EmailA, GoodMessage, ok)
        \/ SubmitContactInsert(r, ok)

Spec == Init /\ [][Next]_vars

\* No other request is in flight.
Alone(r) == \A q \in Req \ {r} : pc[q] \in {"idle", "done"}

\* Requests run one after another and no storage call fails.
SeqNext ==
    \E r \in Req :
        \/ \E email \in Emails : Alone(r) /\ SubscribeFind(r, email, TRUE)
        \/ Alone(r) /\ SubscribeInsert(r, TRUE)
        \/ \E name \in {GoodName, PaddedName} :
               Alone(r) /\ SubmitContactCount(r, name, EmailACaps, GoodMessage, TRUE)
        \/ Alone(r) /\ SubmitContactInsert(r, TRUE)

SeqSpec == Init /\ [][SeqNext]_vars

\* Contact submissions of every shape, one after another.
ValidNext ==
    \E r \in 1 .. NValid :
        \/ \E name \in NameInputs, message \in MessageInputs :
               Alone(r) /\ RejectContact(r, name, EmailA, message)
        \/ \E name \in NameInputs, message \in MessageInputs :
               Alone(r) /\ SubmitContactCount(r, name, EmailA, message, TRUE)
        \/ Alone(r) /\ SubmitContactInsert(r, TRUE)

ValidSpec == Init /\ [][ValidNext]_vars

ReadInit ==
    /\ InitRequests
    /\ newsletters = <<>>
    /\ contacts = <<>>
    /\ contactsBase = 0
    /\ paintings \in PaintingStores

\* The endpoints that only read.
ReadNext ==
    \E r \in 1 .. NRead :
        \/ root(r)
        \/ \E ok \in BOOLEAN : health_check(r, ok)
        \/ \E featured \in FeaturedInputs, limit \in LimitInputs, ok \in BOOLEAN :
               get_paintings(r, featured, limit, ok)

ReadSpec == ReadInit /\ [][ReadNext]_vars

----------------------------------------------------------------------------
(* Vocabulary of the properties *)

Done(r) == pc[r] = "done"

Ok(r) == Done(r) /\ resp[r].status = 200

\* The documents of coll that request r inserted.
DocsBy(coll, r) == {i \in 1 .. Len(coll) : coll[i].id = r}

\* Some storage call of r raised.
Failed(r) == \E i \in 1 .. Len(calls[r]) : ~calls[r][i].ok

CasePairs == {{"a", "A"}, {"b", "B"}}

\* Two emails that differ at most in letter case.
SameEmail(a, b) ==
    /\ Len(a) = Len(b)
    /\ \A i \in 1 .. Len(a) : a[i] = b[i] \/ {a[i], b[i]} \in CasePairs

IsDigit(ch) == \E d \in 1 .. 10 : Digits[d] = ch

DigitValue(ch) == CHOOSE d \in 0 .. 9 : Digits[d + 1] = ch

RECURSIVE ParseDec(_)
ParseDec(s) ==
    IF s = <<>> THEN 0
    ELSE 10 * ParseDec(SubSeq(s, 1, Len(s) - 1)) + DigitValue(s[Len(s)])

\* The characters of a contact number after "CNT".
SuffixDigits(cn) == SubSeq(cn, 4, Len(cn))

Suffix(cn) == ParseDec(SuffixDigits(cn))

AllDigits(s) == \A i \in 1 .. Len(s) : IsDigit(s[i])

----------------------------------------------------------------------------
(* C1.  Requests run one after another, storage does not fail: the first   *)
(* subscribe_newsletter request for an email answers 200 and inserts       *)
(* exactly one document; every later request for that email, also when it  *)
(* differs only in letter case, answers 409 and inserts nothing.           *)
C1_SequentialSubscribe ==
    \A r \in Req :
        (kind[r] = "subscribe" /\ Done(r)) =>
            LET earlier == {q \in 1 .. r - 1 :
                               /\ kind[q] = "subscribe"
                               /\ SameEmail(args[q].email, args[r].email)}
            IN  IF earlier = {}
                THEN /\ resp[r].status = 200
                     /\ Cardinality(DocsBy(newsletters, r)) = 1
                ELSE /\ resp[r].status = 409
                     /\ DocsBy(newsletters, r) = {}

C1_Witness ==
    \E q, r \in Req :
        /\ q < r
        /\ kind[q] = "subscribe" /\ kind[r] = "subscribe"
        /\ Done(q) /\ Done(r)
        /\ args[q].email # args[r].email
        /\ SameEmail(args[q].email, args[r].email)
        /\ resp[q].status = 200 /\ resp[r].status = 409

(* C2.  Requests run one after another, storage does not fail, the         *)
(* contacts collection holds c documents at the start: the i-th            *)
(* submit_contact request returns and stores the contact number whose      *)
(* numeric suffix is c + i.                                                *)
C2_SequentialNumbers ==
    /\ \A i \in 1 .. Len(contacts) :
          /\ Suffix(contacts[i].contactNumber) = contactsBase + i
          /\ Ok(contacts[i].id)
          /\ resp[contacts[i].id].body.contactNumber = contacts[i].contactNumber
    /\ \A r \in Req :
          (kind[r] = "contact" /\ Done(r)) =>
              /\ resp[r].status = 200
              /\ Cardinality(DocsBy(contacts, r)) = 1

C2_Witness ==
    /\ contactsBase > 0
    /\ Len(contacts) >= 2
    /\ \A i \in 1 .. Len(contacts) : Done(contacts[i].id)

(* C3.  Two subscribe_newsletter requests for one email can both pass      *)
(* find_one before either inserts, and then both insert and both answer    *)
(* 200 (C3_Witness is such a state); two documents with one email arise    *)
(* only in that way: the later inserter looked up before the earlier       *)
(* document was stored.                                                     *)
C3_DuplicateOnlyByRace ==
    \A i, j \in 1 .. Len(newsletters) :
        (i < j /\ newsletters[i].email = newsletters[j].email) =>
            /\ calls[newsletters[j].id][1].op = "find_one"
            /\ calls[newsletters[j].id][1].at < i
            /\ calls[newsletters[i].id][1].at < i

C3_Witness ==
    \E i, j \in 1 .. Len(newsletters) :
        /\ i < j
        /\ newsletters[i].email = newsletters[j].email
        /\ newsletters[i].id # newsletters[j].id
        /\ Ok(newsletters[i].id) /\ Ok(newsletters[j].id)
        /\ resp[newsletters[i].id].body.email = resp[newsletters[j].id].body.email

(* C4.  Two submit_contact requests can both read count_documents before   *)
(* either inserts, and then both store and return the same contactNumber   *)
(* (C4_Witness is such a state); two documents with one contactNumber      *)
(* arise only in that way.                                                  *)
C4_SameNumberOnlyByRace ==
    \A i, j \in 1 .. Len(contacts) :
        (i < j /\ contacts[i].contactNumber = contacts[j].contactNumber) =>
            /\ calls[contacts[j].id][1].op = "count_documents"
            /\ calls[contacts[j].id][1].at < i
            /\ calls[contacts[i].id][1].at < i
            /\ count[contacts[i].id] = count[contacts[j].id]

C4_Witness ==
    \E i, j \in 1 .. Len(contacts) :
        /\ i < j
        /\ contacts[i].contactNumber = contacts[j].contactNumber
        /\ contacts[i].id # contacts[j].id
        /\ Ok(contacts[i].id) /\ Ok(contacts[j].id)
        /\ resp[contacts[i].id].body.contactNumber = contacts[i].contactNumber
        /\ resp[contacts[j].id].body.contactNumber = contacts[j].contactNumber

\* The collection a subscribe_newsletter or submit_contact request writes to.
C5_Collection(r) == IF kind[r] = "subscribe" THEN newsletters ELSE contacts

\* State part of C5: what a request's calls, answer and documents look like.
C5_State ==
    \A r \in Req :
        (kind[r] \in {"subscribe", "contact"}) =>
            /\ Len(calls[r]) <= 2
            /\ Failed(r) =>
                  /\ Done(r) /\ resp[r].status = 500
                  /\ ~calls[r][Len(calls[r])].ok
                  /\ \A i \in 1 .. Len(calls[r]) - 1 : calls[r][i].ok
            /\ (Done(r) /\ resp[r].status = 500) => Failed(r)
            /\ Ok(r) =>
                  /\ Cardinality(DocsBy(C5_Collection(r), r)) = 1
                  /\ calls[r][Len(calls[r])].op = "insert_one"
                  /\ ~Failed(r)
            /\ ~Ok(r) => DocsBy(C5_Collection(r), r) = {}

\* Step part of C5: the step that answers with an error changes no collection.
C5_Step ==
    \A r \in Req :
        (~Done(r) /\ Done(r)' /\ resp'[r].status # 200) =>
            UNCHANGED <<newsletters, contacts, contactsBase>>

(* C5.  A subscribe_newsletter or submit_contact request one of whose      *)
(* storage calls fails answers 500, has inserted nothing, changes no       *)
(* collection in the step that answers, and makes no storage call after    *)
(* the failed one; a request that answers 200 has inserted exactly one     *)
(* document; no request ends with a document inserted and an error         *)
(* answer, or with 200 and no document.                                     *)
C5_NoPartialSuccess == []C5_State /\ [][C5_Step]_vars

C5_Witness ==
    \E q, r \in Req :
        /\ Done(q) /\ Done(r)
        /\ kind[q] = kind[r] /\ kind[q] \in {"subscribe", "contact"}
        /\ Failed(q) /\ Len(calls[q]) = 2 /\ resp[q].status = 500
        /\ Ok(r) /\ q < r

\* State part of C6: the answer of a health_check request.
C6_State ==
    \A r \in Req :
        (kind[r] = "health") =>
            /\ Done(r) /\ resp[r].status = 200
            /\ Len(calls[r]) = 1
            /\ IF calls[r][1].ok
               THEN /\ resp[r].body.status = "healthy"
                    /\ resp[r].body.database = "connected"
                    /\ "error" \notin DOMAIN resp[r].body
               ELSE /\ resp[r].body.status = "unhealthy"
                    /\ resp[r].body.database = "disconnected"
                    /\ "error" \in DOMAIN resp[r].body

\* Step part of C6: the health_check step changes no collection.
C6_Step ==
    \A r \in Req :
        (kind'[r] = "health" /\ ~Done(r) /\ Done(r)') =>
            UNCHANGED <<newsletters, contacts, contactsBase, paintings>>

(* C6.  health_check always answers 200: "healthy", "connected" and no     *)
(* error field exactly when the ping succeeded, "unhealthy",                *)
(* "disconnected" and an error field exactly when it failed; and its step  *)
(* changes no collection.                                                   *)
C6_HealthAlways200 == []C6_State /\ [][C6_Step]_vars

C6_Witness ==
    \E q, r \in Req :
        /\ kind[q] = "health" /\ kind[r] = "health"
        /\ Done(q) /\ Done(r)
        /\ calls[q][1].ok /\ ~calls[r][1].ok

(* C7.  get_paintings returns only documents whose featured field equals   *)
(* the featured parameter when one is given, at most limit documents when  *)
(* limit is given (limit = 0 included) and at most 100 when it is not.     *)
C7_FilterAndCap ==
    \A r \in Req :
        (kind[r] = "paintings" /\ Ok(r)) =>
            LET data == resp[r].body.data
            IN  /\ args[r].featured # None =>
                      \A i \in 1 .. Len(data) : data[i].featured = args[r].featured[1]
                /\ args[r].limit # None => Len(data) <= args[r].limit[1]
                /\ args[r].limit = None => Len(data) <= DefaultCap

(* C8.  A contact submission is accepted exactly when the trimmed length   *)
(* of its name is within [2,100] and the trimmed length of its message is  *)
(* within [10,1000]; every stored contact document has a name of length 2  *)
(* to 100 and a message of length 10 to 1000.                               *)
C8_TrimmedLengths ==
    /\ \A r \in Req :
          (kind[r] = "contact" /\ pc[r] # "idle") =>
              ((resp[r].status # 422) <=>
                  /\ Len(Strip(args[r].name)) \in MinNameLen .. MaxNameLen
                  /\ Len(Strip(args[r].message)) \in MinMessageLen .. MaxMessageLen)
    /\ \A i \in 1 .. Len(contacts) :
          /\ Len(contacts[i].name) \in MinNameLen .. MaxNameLen
          /\ Len(contacts[i].message) \in MinMessageLen .. MaxMessageLen

(* C9 as stated.  Every successful submit_contact request returns and      *)
(* stores "CNT" followed by exactly six decimal digits, whatever the       *)
(* number of contacts already stored.                                       *)
C9_ExactlySixDigits ==
    \A r \in Req :
        (kind[r] = "contact" /\ Ok(r)) =>
            LET cn == resp[r].body.contactNumber
            IN  /\ SubSeq(cn, 1, 3) = <<"C", "N", "T">>
                /\ Len(SuffixDigits(cn)) = PadWidth
                /\ AllDigits(SuffixDigits(cn))

(* C9 amended.  Every successful submit_contact request returns and stores *)
(* "CNT" followed by the decimal digits of the existing count plus one,    *)
(* zero-padded on the left to width 6: exactly six digits while count + 1  *)
(* is at most 999999, and the unpadded digits (more than six) above that.  *)
C9_AtLeastSixDigits ==
    \A r \in Req :
        (kind[r] = "contact" /\ Ok(r)) =>
            LET cn == resp[r].body.contactNumber
                n == count[r][1] + 1
            IN  /\ SubSeq(cn, 1, 3) = <<"C", "N", "T">>
                /\ AllDigits(SuffixDigits(cn))
                /\ Suffix(cn) = n
                /\ Len(SuffixDigits(cn)) >= PadWidth
                /\ (Len(SuffixDigits(cn)) = PadWidth) <=> (n < 10 ^ PadWidth)
                /\ (Len(SuffixDigits(cn)) > PadWidth) => SuffixDigits(cn)[1] # "0"
                /\ \A i \in DocsBy(contacts, r) : contacts[i].contactNumber = cn

C9_Witness ==
    \E q, r \in Req :
        /\ kind[q] = "contact" /\ Ok(q) /\ Len(resp[q].body.contactNumber) = 3 + PadWidth
        /\ kind[r] = "contact" /\ Ok(r) /\ Len(resp[r].body.contactNumber) > 3 + PadWidth
        /\ DocsBy(contacts, r) # {}

\* State part of C10: the range of the stored contact numbers.
C10_State ==
    \A i \in 1 .. Len(contacts) :
        /\ Suffix(contacts[i].contactNumber) >= 1
        /\ Suffix(contacts[i].contactNumber) <= contactsBase + Len(contacts)

\* Step part of C10: the stored contacts stay, at most one is appended.
C10_Step ==
    /\ contactsBase' = contactsBase
    /\ Len(contacts') \in {Len(contacts), Len(contacts) + 1}
    /\ SubSeq(contacts', 1, Len(contacts)) = contacts
    /\ \A r \in Req :
          (kind'[r] = "contact" /\ ~Done(r) /\ Done(r)' /\ resp'[r].status # 200) =>
              contacts' = contacts

(* C10.  Under any interleaving and any storage failures the contacts      *)
(* collection only grows: a step appends at most one document and changes  *)
(* no stored one, and the step that ends a failed submission changes       *)
(* nothing; the numeric suffix of every stored contactNumber is at least   *)
(* 1 and at most the number of contact documents stored.                   *)
C10_ContactsOnlyGrow == []C10_State /\ [][C10_Step]_vars

C10_Witness ==
    \E q, r \in Req :
        /\ kind[q] = "contact" /\ kind[r] = "contact"
        /\ Done(q) /\ Failed(q)
        /\ Ok(r) /\ q < r
        /\ \E i \in DocsBy(contacts, r) :
               /\ i < Len(contacts)
               /\ Suffix(contacts[i].contactNumber) < contactsBase + Len(contacts)

====
